---- MODULE Spec2Model ----
(***************************************************************************)
(* Model of mixtura's concurrency core.                                    *)
(*                                                                         *)
(* ProviderLock (mixtura/core/concurrency.py) is a reader-writer lock with *)
(* per-thread reentrant shared holds and lock escalation.  Every block     *)
(* `with self._lock:` of the source is one atomic step of the model; a     *)
(* Condition.wait() ends the step (it gives the mutex up) and the thread   *)
(* continues, in a later step, once a notify_all() has taken it out of the *)
(* condition's set of waiters.                                             *)
(*                                                                         *)
(* The dispatcher (Orchestrator.run_parallel_tasks and search_all in       *)
(* mixtura/core/orchestrator.py) submits one call per task to a thread     *)
(* pool and collects the futures as they complete; SearchCache             *)
(* (mixtura/cache.py) keeps search results in a JSON file for TTL_SECONDS. *)
(* Each component has its own specification; the actions of one component  *)
(* leave the variables of the others unchanged.                            *)
(***************************************************************************)
EXTENDS Integers, Sequences, FiniteSets, TLC

\* Number of threads that use the lock.
NumThreads == 2
\* Deepest nesting of shared()/exclusive() context managers in one thread.
MaxDepth == 3

Threads == 1..NumThreads

VARIABLES
    active_readers,    \* self._active_readers
    active_writers,    \* self._active_writers
    waiting_writers,   \* self._waiting_writers
    reader_threads,    \* self._reader_threads: tid -> hold count (a dict)
    readers_ok,        \* threads blocked in self._readers_ok.wait()
    writers_ok,        \* threads blocked in self._writers_ok.wait()
    pc,                \* where each thread is in the lock's code
    stack,             \* each thread's open context managers, innermost last
    exc,               \* whether an exception is propagating in the thread
    opened             \* how many context managers the thread has opened
                       \* (counted for threads whose program is fixed)

\* The dispatcher: one call of run_parallel_tasks or of search_all.
VARIABLES
    func,              \* the function the caller is in ("none" before a call)
    caller,            \* where the caller is in that function
    tasks,             \* its argument: tasks, or the available providers
    futures,           \* the futures of executor.submit, in submission order
    yielded,           \* the futures as_completed has yielded, in that order
    results,           \* the local list results
    all_results,       \* the local list all_results of search_all
    log                \* what display_operation_results has logged

\* The search cache of one provider.
VARIABLES
    store,             \* the content of self.cache_file
    other_store,       \* the content of another provider's cache file
    local,             \* per process: the call of get or set it is in, with
                       \* the local variable cache
    writable,          \* whether the file system takes changes: when not,
                       \* open(self.cache_file, 'w') and unlink() raise OSError
    full,              \* whether a write to the opened file raises OSError
                       \* (no space left, file size limit)
    now,               \* time.time()
    ret                \* the last call of get or set and how it ended

lockvars == <<active_readers, active_writers, waiting_writers,
              reader_threads, readers_ok, writers_ok>>
threadvars == <<pc, stack, exc, opened>>
dispatchvars == <<func, caller, tasks, futures, yielded, results,
                  all_results, log>>
cachevars == <<store, other_store, local, writable, full, now, ret>>
vars == <<active_readers, active_writers, waiting_writers,
          reader_threads, readers_ok, writers_ok, pc, stack, exc, opened,
          func, caller, tasks, futures, yielded, results, all_results, log,
          store, other_store, local, writable, full, now, ret>>

----------------------------------------------------------------------------
\* The lock's primitives.

\* `tid in self._reader_threads`
IsReader(t) == t \in DOMAIN reader_threads

\* The thread's hold count, 0 when it has no entry in the map.
Holds(t) == IF IsReader(t) THEN reader_threads[t] ELSE 0

\* Loop condition of acquire_shared (line 51), after faulty variants of it:
\* one that ignores waiting writers, one that ignores the active writer,
\* one that also waits for readers.
ReaderMustWaitNoWriterPreference == active_writers > 0
ReaderMustWaitIgnoresActiveWriter == waiting_writers > 0
ReaderMustWaitForReaders ==
    active_readers > 0 \/ active_writers > 0 \/ waiting_writers > 0
ReaderMustWait == active_writers > 0 \/ waiting_writers > 0

\* Loop condition of acquire_exclusive (line 82), after a faulty variant that
\* ignores active readers.
WriterMustWaitIgnoresReaders == active_writers > 0
WriterMustWait == active_readers > 0 \/ active_writers > 0

\* acquire_shared, reentrant branch: only the caller's count changes (after a
\* faulty variant that counts the hold in active_readers as well).
AcquireSharedReentrantCountsHold(t) ==
    /\ reader_threads' = [reader_threads EXCEPT ![t] = @ + 1]
    /\ active_readers' = active_readers + 1
    /\ UNCHANGED <<active_writers, waiting_writers, readers_ok, writers_ok>>
AcquireSharedReentrant(t) ==
    /\ reader_threads' = [reader_threads EXCEPT ![t] = @ + 1]
    /\ UNCHANGED <<active_readers, active_writers, waiting_writers,
                   readers_ok, writers_ok>>

\* acquire_shared, the wait loop: wait on readers_ok, or be admitted.
AcquireSharedAdmit(t) ==
    IF ReaderMustWait
    THEN /\ readers_ok' = readers_ok \cup {t}
         /\ UNCHANGED <<active_readers, active_writers, waiting_writers,
                        reader_threads, writers_ok>>
    ELSE /\ active_readers' = active_readers + 1
         /\ reader_threads' = (t :> 1) @@ reader_threads
         /\ UNCHANGED <<active_writers, waiting_writers, readers_ok, writers_ok>>

\* acquire_shared from its first line to its return or its first wait(),
\* after a faulty variant without the reentrant branch.
acquire_shared_not_reentrant(t) == AcquireSharedAdmit(t)
acquire_shared(t) ==
    IF IsReader(t) THEN AcquireSharedReentrant(t) ELSE AcquireSharedAdmit(t)

\* release_shared raises RuntimeError for a thread without an entry.
ReleaseSharedRaises(t) == ~IsReader(t)

\* release_shared for a thread that has an entry (after a faulty variant that
\* counts a reader down at every release).
ReleaseSharedCountsDownEachTime(t) ==
    /\ reader_threads' =
          IF reader_threads[t] - 1 = 0
          THEN [u \in DOMAIN reader_threads \ {t} |-> reader_threads[u]]
          ELSE [reader_threads EXCEPT ![t] = @ - 1]
    /\ active_readers' = active_readers - 1
    /\ writers_ok' = IF active_readers - 1 = 0 THEN {} ELSE writers_ok
    /\ UNCHANGED <<active_writers, waiting_writers, readers_ok>>
ReleaseSharedHeld(t) ==
    IF reader_threads[t] - 1 = 0
    THEN /\ reader_threads' =
                [u \in DOMAIN reader_threads \ {t} |-> reader_threads[u]]
         /\ active_readers' = active_readers - 1
         /\ writers_ok' = IF active_readers - 1 = 0 THEN {} ELSE writers_ok
         /\ UNCHANGED <<active_writers, waiting_writers, readers_ok>>
    ELSE /\ reader_threads' = [reader_threads EXCEPT ![t] = @ - 1]
         /\ UNCHANGED <<active_readers, active_writers, waiting_writers,
                        readers_ok, writers_ok>>

\* release_shared, after a faulty variant that counts the reader down before
\* it looks for the caller's entry.
release_shared_unchecked(t) ==
    IF ReleaseSharedRaises(t)
    THEN /\ active_readers' = active_readers - 1
         /\ UNCHANGED <<active_writers, waiting_writers, reader_threads,
                        readers_ok, writers_ok>>
    ELSE ReleaseSharedHeld(t)
release_shared(t) ==
    IF ReleaseSharedRaises(t) THEN UNCHANGED lockvars ELSE ReleaseSharedHeld(t)

\* acquire_exclusive: the wait loop after the writer has registered
\* (registered = 1 on the first pass, 0 when the thread returns from wait()).
AcquireExclusiveLoop(t, registered) ==
    IF WriterMustWait
    THEN /\ waiting_writers' = waiting_writers + registered
         /\ writers_ok' = writers_ok \cup {t}
         /\ UNCHANGED <<active_readers, active_writers, reader_threads, readers_ok>>
    ELSE /\ active_writers' = active_writers + 1
         /\ waiting_writers' = waiting_writers + registered - 1
         /\ UNCHANGED <<active_readers, reader_threads, readers_ok, writers_ok>>

acquire_exclusive(t) == AcquireExclusiveLoop(t, 1)

\* release_exclusive, after a faulty variant without the two notify_all().
release_exclusive_without_notify ==
    /\ active_writers' = active_writers - 1
    /\ UNCHANGED <<active_readers, waiting_writers, reader_threads,
                   readers_ok, writers_ok>>
release_exclusive ==
    /\ active_writers' = active_writers - 1
    /\ writers_ok' = {}
    /\ readers_ok' = {}
    /\ UNCHANGED <<active_readers, waiting_writers, reader_threads>>

----------------------------------------------------------------------------
\* The state after ProviderLock() and before any thread has used it.

LockInit ==
    /\ active_readers = 0
    /\ active_writers = 0
    /\ waiting_writers = 0
    /\ reader_threads = <<>>
    /\ readers_ok = {}
    /\ writers_ok = {}
    /\ pc = [t \in Threads |-> "run"]
    /\ stack = [t \in Threads |-> <<>>]
    /\ exc = [t \in Threads |-> FALSE]
    /\ opened = [t \in Threads |-> 0]

\* No call of the dispatcher has been made.
NoCall ==
    /\ func = "none"
    /\ caller = "idle"
    /\ tasks = <<>>
    /\ futures = <<>>
    /\ yielded = <<>>
    /\ results = <<>>
    /\ all_results = <<>>
    /\ log = <<>>

\* The processes that use one provider's cache file at the same time.
Procs == {"A", "B"}

\* No process is inside a call of the cache.
NoCalls == [p \in Procs |-> [at |-> "idle"]]

\* The provider has no cache file and the cache has not been called.
NoFile ==
    /\ store = [kind |-> "missing"]
    /\ other_store = [kind |-> "missing"]
    /\ local = NoCalls
    /\ writable = TRUE
    /\ full = FALSE
    /\ now = 0
    /\ ret = [op |-> "none"]

Init == LockInit /\ NoCall /\ NoFile

\* A step of the lock's threads: the dispatcher and the cache stay as they are.
LockOnly == UNCHANGED <<dispatchvars, cachevars, opened>>

----------------------------------------------------------------------------
\* Threads: the context managers shared() and exclusive().
\*
\* pc[t]:
\*   "run"             in the body of the innermost open context manager
\*                     (or outside every context manager)
\*   "sh_wait"         shared(): inside acquire_shared, in readers_ok.wait()
\*   "ex_release"      exclusive(), escalation: in the loop of release_shared
\*   "ex_acquire"      exclusive(): about to call acquire_exclusive
\*   "ex_wait"         exclusive(): inside acquire_exclusive, in writers_ok.wait()
\*   "ex_restore"      exclusive(), escalation: in the loop of acquire_shared
\*   "ex_restore_wait" the same, in readers_ok.wait()
\*   "returned"        the context manager on top of the stack has run its
\*                     exit code and control is back in the caller
\* A frame of stack[t] holds the locals of one context manager: is_reader and
\* reader_count of exclusive() and the loop counter i.  Two more fields record
\* history for the properties and are read by no action: held, the thread's
\* hold count when the context manager was entered, and contended, whether
\* the acquire call of the context manager found the lock taken (for
\* shared(): a writer active or waiting; for exclusive(): a reader active).
\* contended is kept while the thread is in the body of that context manager
\* and forgotten when the body ends or opens another context manager.

Top(t) == stack[t][Len(stack[t])]
Pop(t) == [stack EXCEPT ![t] = SubSeq(@, 1, Len(@) - 1)]
Forget(f) == [f EXCEPT !.contended = FALSE]
Push(t, f) ==
    [stack EXCEPT ![t] = Append([k \in DOMAIN @ |-> Forget(@[k])], f)]
SetTop(t, f) == [stack EXCEPT ![t] = [@ EXCEPT ![Len(@)] = f]]

Frame(kind, is_reader, reader_count, held, contended) ==
    [kind |-> kind, is_reader |-> is_reader, reader_count |-> reader_count,
     i |-> 0, held |-> held, contended |-> contended]

\* try/finally: the finally block runs whether or not the body raised (after
\* a faulty variant that releases only when the body returns).
FinallyOnlyOnReturn(raised) == ~raised
FinallyRuns(raised) == TRUE

\* exclusive(): the locals is_reader and reader_count, read under the mutex
\* (after a faulty variant that never takes the escalation path).
EscalationCheckSkipped(t) == [is_reader |-> FALSE, reader_count |-> 0]
EscalationCheck(t) == [is_reader |-> IsReader(t), reader_count |-> Holds(t)]

\* exclusive(): each loop `for _ in range(reader_count)` ends after
\* reader_count calls; i counts the calls made before the current one.
\* RestoreLoopDoneAfterOne is a faulty variant that restores a single hold,
\* ReleaseLoopDoneAfterOne one that releases a single hold.
ReleaseLoopDoneAfterOne(t) == TRUE
ReleaseLoopDone(t) == Top(t).i + 1 = Top(t).reader_count
RestoreLoopDoneAfterOne(t) == TRUE
RestoreLoopDone(t) == Top(t).i + 1 = Top(t).reader_count

\* The thread is running code of its own (a body) and may open a context
\* manager: nothing is opened inside an exclusive body.
InBody(t) == pc[t] = "run" /\ ~exc[t]
MayEnter(t) ==
    /\ InBody(t)
    /\ Len(stack[t]) < MaxDepth
    /\ (stack[t] # <<>> => Top(t).kind = "shared")

\* shared(): acquire_shared() up to its return or its wait().
OpenShared(t) ==
    /\ acquire_shared(t)
    /\ stack' = Push(t, Frame("shared", FALSE, 0, Holds(t),
                              active_writers > 0 \/ waiting_writers > 0))
    /\ pc' = [pc EXCEPT ![t] = IF t \in readers_ok' THEN "sh_wait" ELSE "run"]
    /\ UNCHANGED exc

EnterShared(t) == MayEnter(t) /\ OpenShared(t)

\* shared(): the thread returns from readers_ok.wait() and tests the loop
\* condition again.
SharedWake(t) ==
    /\ pc[t] = "sh_wait"
    /\ t \notin readers_ok
    /\ AcquireSharedAdmit(t)
    /\ pc' = [pc EXCEPT ![t] = IF t \in readers_ok' THEN "sh_wait" ELSE "run"]
    /\ UNCHANGED <<stack, exc>>

\* shared(): the body ends (returns or raises); finally: release_shared().
ExitShared(t) ==
    /\ pc[t] = "run"
    /\ stack[t] # <<>>
    /\ Top(t).kind = "shared"
    /\ IF FinallyRuns(exc[t])
       THEN /\ release_shared(t)
            /\ exc' = [exc EXCEPT ![t] = @ \/ ReleaseSharedRaises(t)]
       ELSE UNCHANGED <<lockvars, exc>>
    /\ pc' = [pc EXCEPT ![t] = "returned"]
    /\ stack' = SetTop(t, Forget(Top(t)))

\* exclusive(): the first block, which reads the caller's entry of the map.
OpenExclusive(t) ==
    /\ stack' = Push(t, Frame("exclusive", EscalationCheck(t).is_reader,
                              EscalationCheck(t).reader_count, Holds(t), FALSE))
    /\ pc' = [pc EXCEPT ![t] =
                IF EscalationCheck(t).is_reader THEN "ex_release" ELSE "ex_acquire"]
    /\ UNCHANGED <<lockvars, exc>>

EnterExclusive(t) == MayEnter(t) /\ OpenExclusive(t)

\* exclusive(), escalation step 1: one release_shared() of the loop.
EscalateRelease(t) ==
    /\ pc[t] = "ex_release"
    /\ release_shared(t)
    /\ IF ReleaseSharedRaises(t)
       THEN /\ exc' = [exc EXCEPT ![t] = TRUE]
            /\ pc' = [pc EXCEPT ![t] = "returned"]
            /\ UNCHANGED stack
       ELSE /\ stack' = SetTop(t, [Top(t) EXCEPT !.i = @ + 1])
            /\ pc' = [pc EXCEPT ![t] =
                        IF ReleaseLoopDone(t) THEN "ex_acquire" ELSE "ex_release"]
            /\ UNCHANGED exc

\* exclusive(): acquire_exclusive() up to its return or its wait().
ExclusiveAcquire(t) ==
    /\ pc[t] = "ex_acquire"
    /\ acquire_exclusive(t)
    /\ stack' = SetTop(t, [Top(t) EXCEPT !.contended = active_readers > 0])
    /\ pc' = [pc EXCEPT ![t] = IF t \in writers_ok' THEN "ex_wait" ELSE "run"]
    /\ UNCHANGED exc

\* exclusive(): the thread returns from writers_ok.wait() and tests the loop
\* condition again.
ExclusiveWake(t) ==
    /\ pc[t] = "ex_wait"
    /\ t \notin writers_ok
    /\ AcquireExclusiveLoop(t, 0)
    /\ pc' = [pc EXCEPT ![t] = IF t \in writers_ok' THEN "ex_wait" ELSE "run"]
    /\ UNCHANGED <<stack, exc>>

\* exclusive(): the body ends (returns or raises); finally: release_exclusive(),
\* and on the escalation path the outer finally then restores the shared holds.
ExitExclusive(t) ==
    /\ pc[t] = "run"
    /\ stack[t] # <<>>
    /\ Top(t).kind = "exclusive"
    /\ IF FinallyRuns(exc[t])
       THEN /\ release_exclusive
            /\ stack' = SetTop(t, [Forget(Top(t)) EXCEPT !.i = 0])
            /\ pc' = [pc EXCEPT ![t] =
                        IF Top(t).is_reader THEN "ex_restore" ELSE "returned"]
       ELSE /\ pc' = [pc EXCEPT ![t] = "returned"]
            /\ stack' = SetTop(t, Forget(Top(t)))
            /\ UNCHANGED lockvars
    /\ UNCHANGED exc

\* The end of one acquire_shared() of the restore loop.
RestoreStep(t) ==
    IF t \in readers_ok'
    THEN /\ pc' = [pc EXCEPT ![t] = "ex_restore_wait"]
         /\ UNCHANGED stack
    ELSE /\ stack' = SetTop(t, [Top(t) EXCEPT !.i = @ + 1])
         /\ pc' = [pc EXCEPT ![t] =
                     IF RestoreLoopDone(t) THEN "returned" ELSE "ex_restore"]

\* exclusive(), escalation step 3: one acquire_shared() of the loop.
EscalateRestore(t) ==
    /\ pc[t] = "ex_restore"
    /\ acquire_shared(t)
    /\ RestoreStep(t)
    /\ UNCHANGED exc

\* The same after readers_ok.wait() has returned.
EscalateRestoreWake(t) ==
    /\ pc[t] = "ex_restore_wait"
    /\ t \notin readers_ok
    /\ AcquireSharedAdmit(t)
    /\ RestoreStep(t)
    /\ UNCHANGED exc

\* The with statement (or the call) is over: control continues after it,
\* with the exception still propagating if there is one.
Return(t) ==
    /\ pc[t] = "returned"
    /\ stack' = Pop(t)
    /\ pc' = [pc EXCEPT ![t] = "run"]
    /\ UNCHANGED <<lockvars, exc>>

\* The body of a context manager raises an exception.
Raise(t) ==
    /\ InBody(t)
    /\ stack[t] # <<>>
    /\ exc' = [exc EXCEPT ![t] = TRUE]
    /\ UNCHANGED <<lockvars, pc, stack>>

\* An except clause of the caller (or the end of the thread) takes the
\* exception that left a context manager.
Catch(t) ==
    /\ pc[t] = "run"
    /\ exc[t]
    /\ exc' = [exc EXCEPT ![t] = FALSE]
    /\ UNCHANGED <<lockvars, pc, stack>>

Next ==
    \E t \in Threads :
        \/ EnterShared(t) /\ LockOnly
        \/ SharedWake(t) /\ LockOnly
        \/ ExitShared(t) /\ LockOnly
        \/ EnterExclusive(t) /\ LockOnly
        \/ EscalateRelease(t) /\ LockOnly
        \/ ExclusiveAcquire(t) /\ LockOnly
        \/ ExclusiveWake(t) /\ LockOnly
        \/ ExitExclusive(t) /\ LockOnly
        \/ EscalateRestore(t) /\ LockOnly
        \/ EscalateRestoreWake(t) /\ LockOnly
        \/ Return(t) /\ LockOnly
        \/ Raise(t) /\ LockOnly
        \/ Catch(t) /\ LockOnly

Spec == Init /\ [][Next]_vars

----------------------------------------------------------------------------
\* Threads that call the four primitives directly, in any order.  The call is
\* recorded as a frame whose kind is the primitive's name, so that the state
\* after the call ("returned") says which call has just ended.

\* Most shared holds one thread takes by direct calls.
MaxHolds == 2
\* Most release_exclusive calls made while no writer is active.
MaxUnderflow == 2

MayCall(t) == pc[t] = "run" /\ ~exc[t] /\ stack[t] = <<>>

RawAcquireShared(t) ==
    /\ MayCall(t)
    /\ Holds(t) < MaxHolds
    /\ acquire_shared(t)
    /\ stack' = Push(t, Frame("acquire_shared", FALSE, 0, Holds(t),
                              active_writers > 0 \/ waiting_writers > 0))
    /\ pc' = [pc EXCEPT ![t] = IF t \in readers_ok' THEN "sh_wait" ELSE "returned"]
    /\ UNCHANGED exc

RawSharedWake(t) ==
    /\ pc[t] = "sh_wait"
    /\ t \notin readers_ok
    /\ AcquireSharedAdmit(t)
    /\ pc' = [pc EXCEPT ![t] = IF t \in readers_ok' THEN "sh_wait" ELSE "returned"]
    /\ UNCHANGED <<stack, exc>>

RawReleaseShared(t) ==
    /\ MayCall(t)
    /\ release_shared(t)
    /\ exc' = [exc EXCEPT ![t] = ReleaseSharedRaises(t)]
    /\ stack' = Push(t, Frame("release_shared", FALSE, 0, Holds(t), FALSE))
    /\ pc' = [pc EXCEPT ![t] = "returned"]

RawAcquireExclusive(t) ==
    /\ MayCall(t)
    /\ acquire_exclusive(t)
    /\ stack' = Push(t, Frame("acquire_exclusive", FALSE, 0, Holds(t),
                              active_readers > 0))
    /\ pc' = [pc EXCEPT ![t] = IF t \in writers_ok' THEN "ex_wait" ELSE "returned"]
    /\ UNCHANGED exc

RawExclusiveWake(t) ==
    /\ pc[t] = "ex_wait"
    /\ t \notin writers_ok
    /\ AcquireExclusiveLoop(t, 0)
    /\ pc' = [pc EXCEPT ![t] = IF t \in writers_ok' THEN "ex_wait" ELSE "returned"]
    /\ UNCHANGED <<stack, exc>>

RawReleaseExclusive(t) ==
    /\ MayCall(t)
    /\ active_writers > -MaxUnderflow
    /\ release_exclusive
    /\ stack' = Push(t, Frame("release_exclusive", FALSE, 0, Holds(t), FALSE))
    /\ pc' = [pc EXCEPT ![t] = "returned"]
    /\ UNCHANGED exc

NextRaw ==
    \E t \in Threads :
        \/ RawAcquireShared(t) /\ LockOnly
        \/ RawSharedWake(t) /\ LockOnly
        \/ RawReleaseShared(t) /\ LockOnly
        \/ RawAcquireExclusive(t) /\ LockOnly
        \/ RawExclusiveWake(t) /\ LockOnly
        \/ RawReleaseExclusive(t) /\ LockOnly
        \/ Return(t) /\ LockOnly
        \/ Catch(t) /\ LockOnly

SpecRaw == Init /\ [][NextRaw]_vars

----------------------------------------------------------------------------
\* One writer and a stream of readers, under fair scheduling.  The writer
\* uses exclusive() and every other thread uses shared(), over and over.  A
\* thread that is inside the lock's code or inside a body keeps taking steps
\* (weak fairness: a runnable thread is scheduled); no thread has to start a
\* new outermost context manager.

Readers == 2..NumThreads
Writer == CHOOSE t \in Threads : t \notin Readers

WriterStep ==
    \/ EnterExclusive(Writer)
    \/ ExclusiveAcquire(Writer)
    \/ ExclusiveWake(Writer)
    \/ ExitExclusive(Writer)

ReaderStep(r) ==
    \/ EnterShared(r)
    \/ SharedWake(r)
    \/ ExitShared(r)

NextWriterReaders ==
    \/ WriterStep /\ LockOnly
    \/ \E r \in Readers : ReaderStep(r) /\ LockOnly
    \/ \E t \in Threads : (Return(t) \/ Raise(t) \/ Catch(t)) /\ LockOnly

Inside(t) == stack[t] # <<>>

SpecWriterReaders ==
    /\ Init
    /\ [][NextWriterReaders]_vars
    /\ WF_vars(/\ Inside(Writer) /\ LockOnly
               /\ (WriterStep \/ Return(Writer) \/ Catch(Writer)))
    /\ \A r \in Readers :
          WF_vars(/\ Inside(r) /\ LockOnly
                  /\ (ReaderStep(r) \/ Return(r) \/ Catch(r)))

----------------------------------------------------------------------------
\* Where a thread is.

InSharedBody(t) ==
    pc[t] = "run" /\ stack[t] # <<>> /\ Top(t).kind = "shared"
InExclusiveBody(t) ==
    pc[t] = "run" /\ stack[t] # <<>> /\ Top(t).kind = "exclusive"
Blocked(t) == t \in readers_ok \cup writers_ok

----------------------------------------------------------------------------
\* Properties of the reader-writer lock under shared() and exclusive().

\* C1: at most one writer is active, an active writer excludes every active
\* reader and the reverse, and while a thread is in the body of exclusive()
\* no thread has an entry in the reader-hold map.
C1_MutualExclusion ==
    /\ active_writers \in {0, 1}
    /\ active_writers = 1 => active_readers = 0
    /\ active_readers > 0 => active_writers = 0
    /\ \A t \in Threads : InExclusiveBody(t) => DOMAIN reader_threads = {}

\* An escalated thread is in its exclusive body while another thread waits
\* in acquire_shared.
C1_Witness ==
    \E t, u \in Threads :
        /\ t # u
        /\ InExclusiveBody(t) /\ Top(t).is_reader
        /\ pc[u] = "sh_wait" /\ u \in readers_ok

\* C2: a thread without a shared hold gets its entry in the reader-hold map
\* only by a step taken with no writer active and no writer waiting, and that
\* step counts it once in active_readers and sets its hold count to 1.
C2_NewReaderAdmission ==
    [][\A t \in Threads :
          (~IsReader(t) /\ IsReader(t)') =>
              /\ active_writers = 0 /\ waiting_writers = 0
              /\ active_writers' = 0 /\ waiting_writers' = 0
              /\ active_readers' = active_readers + 1
              /\ reader_threads'[t] = 1]_vars

\* A thread is in the body of an outermost shared() whose acquire_shared
\* found a writer active or waiting: it was admitted after having waited.
C2_Witness ==
    \E t \in Threads :
        /\ InSharedBody(t)
        /\ Top(t).held = 0 /\ Top(t).contended
        /\ Holds(t) = 1

\* Every other thread is outside every context manager.
OthersOutside(t) == \A u \in Threads \ {t} : stack[u] = <<>>

\* The steps of one thread.
Step(t) ==
    /\ \/ EnterShared(t) \/ SharedWake(t) \/ ExitShared(t)
       \/ EnterExclusive(t) \/ EscalateRelease(t) \/ ExclusiveAcquire(t)
       \/ ExclusiveWake(t) \/ ExitExclusive(t) \/ EscalateRestore(t)
       \/ EscalateRestoreWake(t) \/ Return(t) \/ Raise(t) \/ Catch(t)
    /\ LockOnly

\* C3: a thread that escalates while no other thread uses the lock is never
\* blocked in a wait() and can always take its next step, so it goes through
\* shared body, exclusive body, end of exclusive(), end of shared() in program
\* order; in the exclusive body it holds the only claim on the lock
\* (active_readers = 0), and when exclusive() has returned it holds its
\* shared holds again, which it releases only afterwards.
C3_SoloEscalation ==
    \A t \in Threads :
        OthersOutside(t) =>
            /\ ~Blocked(t)
            /\ stack[t] # <<>> => ENABLED Step(t)
            /\ pc[t] = "ex_release" => IsReader(t)
            /\ InSharedBody(t) => IsReader(t)
            /\ InExclusiveBody(t) =>
                   active_readers = 0 /\ active_writers = 1 /\ ~IsReader(t)
            /\ (pc[t] = "returned" /\ Top(t).kind = "exclusive") =>
                   /\ active_writers = 0
                   /\ Holds(t) = Top(t).held
                   /\ active_readers = (IF Top(t).held > 0 THEN 1 ELSE 0)

\* A thread alone on the lock has escalated from two shared holds and
\* exclusive() has returned with both holds restored.
C3_Witness ==
    \E t \in Threads :
        /\ OthersOutside(t)
        /\ pc[t] = "returned" /\ ~exc[t]
        /\ Top(t).kind = "exclusive" /\ Top(t).reader_count = 2
        /\ Holds(t) = 2

\* C4: when exclusive() entered with k >= 1 shared holds has returned,
\* normally or with the body's exception, the thread's hold count is k again,
\* active_readers counts each thread of the map once, and active_writers
\* counts only the threads that are in an exclusive body, none of them it.
C4_EscalationRestoresHolds ==
    \A t \in Threads :
        (pc[t] = "returned" /\ Top(t).kind = "exclusive" /\ Top(t).held >= 1) =>
            /\ Top(t).is_reader
            /\ IsReader(t)
            /\ reader_threads[t] = Top(t).held
            /\ active_readers = Cardinality(DOMAIN reader_threads)
            /\ ~InExclusiveBody(t)
            /\ active_writers =
                   Cardinality({u \in Threads : InExclusiveBody(u)})

\* exclusive() entered with two shared holds has returned with the body's
\* exception while another thread holds the lock in shared mode.
C4_Witness ==
    \E t, u \in Threads :
        /\ t # u
        /\ pc[t] = "returned" /\ exc[t]
        /\ Top(t).kind = "exclusive" /\ Top(t).held = 2
        /\ IsReader(u)

\* C5: the step by which an escalating thread enters its exclusive body is
\* taken only when no other thread has a shared hold.
C5_EscalationWaitsForReaders ==
    [][\A a \in Threads :
          (/\ pc[a] \in {"ex_acquire", "ex_wait"}
           /\ Top(a).is_reader
           /\ pc'[a] = "run") =>
              \A b \in Threads \ {a} : ~IsReader(b) /\ ~IsReader(b)']_vars

\* A thread is in the exclusive body of an escalation whose acquire_exclusive
\* call found another reader active: that reader has released since.
C5_Witness ==
    \E a \in Threads :
        /\ InExclusiveBody(a)
        /\ Top(a).is_reader /\ Top(a).contended
        /\ DOMAIN reader_threads = {}

\* C6: acquire_shared called by a thread that already has a shared hold
\* returns in the same step, adds one to that thread's hold count and changes
\* nothing else of the lock, whatever the number of waiting writers.
C6_ReentrantAcquire ==
    [][\A t \in Threads :
          (IsReader(t) /\ (EnterShared(t) \/ EscalateRestore(t))) =>
              /\ pc'[t] \notin {"sh_wait", "ex_restore_wait"}
              /\ t \notin readers_ok'
              /\ reader_threads' = [reader_threads EXCEPT ![t] = @ + 1]
              /\ UNCHANGED <<active_readers, active_writers, waiting_writers,
                             readers_ok, writers_ok>>]_vars

\* A thread is in the body of a nested shared() that it entered while a
\* writer was waiting, and the writer is still waiting.
C6_Witness ==
    \E t \in Threads :
        /\ InSharedBody(t)
        /\ Top(t).held >= 1 /\ Top(t).contended
        /\ Holds(t) = Top(t).held + 1
        /\ waiting_writers > 0

\* C7: when shared() or the non-escalating exclusive() has returned with the
\* body's exception, the thread's hold count is what it was on entry
\* (shared()), active_writers counts only the threads still in an exclusive
\* body (exclusive()), and every thread still in a wait() has a reason to
\* wait in the current state.
C7_ReleaseOnError ==
    \A t \in Threads :
        (pc[t] = "returned" /\ exc[t]) =>
            /\ Top(t).kind = "shared" => Holds(t) = Top(t).held
            /\ (Top(t).kind = "exclusive" /\ ~Top(t).is_reader) =>
                   /\ active_writers =
                          Cardinality({u \in Threads : InExclusiveBody(u)})
                   /\ \A u \in writers_ok : WriterMustWait
                   /\ \A u \in readers_ok : ReaderMustWait

\* The non-escalating exclusive() has returned with the body's exception and
\* a thread that waited for the lock has been woken up.
C7_Witness ==
    \E t, u \in Threads :
        /\ t # u
        /\ pc[t] = "returned" /\ exc[t]
        /\ Top(t).kind = "exclusive" /\ ~Top(t).is_reader
        /\ pc[u] \in {"sh_wait", "ex_wait"} /\ ~Blocked(u)

\* C8: release_shared called by a thread without a shared hold raises and
\* leaves the whole state of the lock unchanged.
C8_ReleaseWithoutHold ==
    [][\A t \in Threads :
          (~IsReader(t) /\ RawReleaseShared(t)) =>
              /\ exc'[t]
              /\ UNCHANGED lockvars]_vars

\* release_shared has raised in a thread without a hold while another thread
\* holds the lock in shared mode.
C8_Witness ==
    \E t, u \in Threads :
        /\ pc[t] = "returned" /\ exc[t]
        /\ Top(t).kind = "release_shared" /\ Top(t).held = 0
        /\ IsReader(u)

\* C9: under fair scheduling, if every reader gives up its shared holds again
\* and again, a writer waiting in acquire_exclusive gets the lock, although
\* readers may call acquire_shared for ever.
C9_WriterNotStarved ==
    (\A r \in Readers : []<>(~IsReader(r))) =>
        ((pc[Writer] = "ex_wait") ~> InExclusiveBody(Writer))

\* The writer waits in acquire_exclusive, no writer is active, and a new
\* reader is held back in acquire_shared by the waiting writer alone.
C9_Witness ==
    /\ pc[Writer] = "ex_wait"
    /\ waiting_writers = 1 /\ active_writers = 0
    /\ \E r \in Readers : pc[r] = "sh_wait" /\ r \in readers_ok

\* C10: with no writer active or waiting, a call of acquire_shared is granted
\* in the same step, whatever the number of readers already inside.
C10_ReadersShare ==
    [][\A t \in Threads :
          (/\ active_writers = 0 /\ waiting_writers = 0
           /\ (EnterShared(t) \/ EscalateRestore(t))) =>
              /\ IsReader(t)'
              /\ t \notin readers_ok'
              /\ pc'[t] \notin {"sh_wait", "ex_restore_wait"}]_vars

\* Every thread is in the body of its outermost shared() at the same time,
\* none of them having found a writer.
C10_Witness ==
    /\ \A t \in Threads :
          InSharedBody(t) /\ Len(stack[t]) = 1 /\ ~Top(t).contended
    /\ active_readers = NumThreads

----------------------------------------------------------------------------
\* Package (mixtura/core/package.py).  A dict is a function from its keys to
\* its values; None is Python's None, which JSON writes as null.

None == "None"

Package(name, provider, id, version, description, installed, origin, extra) ==
    [name |-> name, provider |-> provider, id |-> id, version |-> version,
     description |-> description, installed |-> installed, origin |-> origin,
     extra |-> extra]

PackageFields ==
    {"name", "provider", "id", "version", "description", "installed", "origin"}

\* {"name": self.name, ..., "origin": self.origin, **self.extra}: a key of
\* extra comes last and replaces the field of the same name.
to_dict(self) ==
    [k \in PackageFields \cup DOMAIN self.extra |->
        IF k \in DOMAIN self.extra THEN self.extra[k] ELSE self[k]]

\* data.get(k, default)
DictGet(data, k, default) == IF k \in DOMAIN data THEN data[k] ELSE default

\* `a or b` for a string or None: the empty string and None are false.
OrElse(a, b) == IF a = "" \/ a = None THEN b ELSE a

from_dict(data, provider) ==
    [name |-> DictGet(data, "name", "unknown"),
     provider |-> DictGet(data, "provider", provider),
     id |-> OrElse(DictGet(data, "id", None), DictGet(data, "name", "unknown")),
     version |-> DictGet(data, "version", "unknown"),
     description |-> DictGet(data, "description", ""),
     installed |-> DictGet(data, "installed", FALSE),
     origin |-> DictGet(data, "origin", None),
     extra |-> [k \in DOMAIN data \ PackageFields |-> data[k]]]

\* Package(name=..., provider=..., id=...) with the defaults of the dataclass.
Found(name, provider) ==
    Package(name, provider, name, "unknown", "", FALSE, None, <<>>)

----------------------------------------------------------------------------
\* The dispatcher: Orchestrator.run_parallel_tasks and Orchestrator.search_all
\* (mixtura/core/orchestrator.py; BaseController.run_parallel_tasks and
\* ModuleManager.search_all are the same code).
\*
\* caller:
\*   "idle"      before the call
\*   "submit"    in the dict comprehension that calls executor.submit
\*   "collect"   in the loop over as_completed(futures)
\*   "unwind"    future.result() has raised: the exception has left the loop
\*               and is leaving the with block, whose exit is
\*               executor.shutdown(wait=True)
\*   "returned"  the function has returned
\*   "raised"    the function has raised
\*   "displayed" the caller has passed the returned results to
\*               display_operation_results
\* A future is [state |-> "running"] from executor.submit until its worker
\* function has ended ("running" covers the time the work item waits for its
\* thread: with max_workers = len(tasks) no work item waits for another one).
\* Then it is [state |-> "finished", what, raised, value, late]: raised and
\* value are what future.result() raises or returns; what and late record
\* history for the properties and are read by no action: what the provider
\* did, and whether the worker ended after the caller had begun to unwind.

\* Most tasks of one call of run_parallel_tasks.
MaxTasks == 3

Providers == {"nixpkgs", "flatpak"}

\* tasks of run_parallel_tasks: one task per provider name.  The list may
\* name a provider twice (`clean nixpkgs nixpkgs`).
TaskLists == UNION {[1..n -> Providers] : n \in 0..MaxTasks}

\* get_available_providers().values(): the values of a dict keyed by name.
AvailableLists ==
    {av \in UNION {[1..n -> Providers] : n \in 0..Cardinality(Providers)} :
        \A i, j \in DOMAIN av : av[i] = av[j] => i = j}

\* What a provider does in _install_provider: get_provider finds none, or
\* is_available() is false, or mgr.install(pkgs) returns, or it raises.
\* "BaseException" is an exception that is no Exception (SystemExit,
\* KeyboardInterrupt, GeneratorExit).
InstallOutcomes ==
    {"unknown", "unavailable", "ok", "CommandError", "Exception",
     "BaseException"}

\* What mgr.search(query) does: it returns a list, returns None, or raises.
Hits(provider) ==
    {<<>>, <<Found("git", provider)>>,
     <<Found("git", provider), Found("gitui", provider)>>}
SearchOutcomes(provider) ==
    {[kind |-> "returns", value |-> h] : h \in Hits(provider)}
        \cup {[kind |-> "none"]}
        \cup {[kind |-> "raises", exc |-> e] : e \in {"Exception", "BaseException"}}

\* How a call ends.
Returned(value) == [raised |-> FALSE, value |-> value]
Raised(e) == [raised |-> TRUE, value |-> e]

\* `except CommandError` followed by `except Exception`.
ExceptCommandErrorOnly(e) == e = "CommandError"
ExceptException(e) == e \in {"CommandError", "Exception"}

\* The worker function of _do_install.  A result is the tuple
\* (name, success, message); a message is the tuple of its parts.
install_provider(provider_name, what) ==
    IF what = "unknown"
    THEN Returned(<<provider_name, FALSE, <<"Provider unknown", provider_name>>>>)
    ELSE IF what = "unavailable"
    THEN Returned(<<provider_name, FALSE,
                    <<"Provider is not available", provider_name>>>>)
    ELSE IF what = "ok"
    THEN Returned(<<provider_name, TRUE, <<"Installed via", provider_name>>>>)
    ELSE IF ExceptException(what)
    THEN Returned(<<provider_name, FALSE,
                    <<"Failed to install via", provider_name, what>>>>)
    ELSE Raised(what)

\* The worker function of search_all: `return mgr.search(query) or []` in a
\* try whose handler is `except Exception: return []`.
search_provider(what) ==
    IF what.kind = "returns" THEN Returned(what.value)
    ELSE IF what.kind = "none" THEN Returned(<<>>)
    ELSE IF ExceptException(what.exc) THEN Returned(<<>>)
    ELSE Raised(what.exc)

\* `if results: all_results.extend(results)`
ExtendReplaces(list, found) == found
Extend(list, found) == IF found # <<>> THEN list \o found ELSE list

\* display_operation_results (mixtura/ui/display.py; the code of
\* BaseController.report_parallel_results is the same).  What it logs is a
\* sequence of lines: <<"blank">> for console.print(), <<"success", m>> for
\* log_success(m), <<"error", m>> for log_error(m) and <<"warn", m, n>> for
\* log_warn(f"{m} ({n} error(s))").
AlwaysSucceeded(result) == TRUE
Succeeded(result) == result[2]

\* The loop over results; st holds the lines logged and success_count.
RECURSIVE ReportEach(_, _, _)
ReportEach(rs, i, st) ==
    IF i > Len(rs) THEN st
    ELSE ReportEach(rs, i + 1,
            IF Succeeded(rs[i])
            THEN [lines |-> Append(st.lines, <<"success", rs[i][3]>>),
                  success_count |-> st.success_count + 1]
            ELSE [lines |-> Append(st.lines, <<"error", rs[i][3]>>),
                  success_count |-> st.success_count])

display_operation_results(rs, success_msg, partial_msg) ==
    LET st == ReportEach(rs, 1, [lines |-> << <<"blank">> >>, success_count |-> 0])
        total == Len(rs)
    IN  IF st.success_count = total
        THEN Append(st.lines, <<"success", success_msg>>)
        ELSE Append(st.lines, <<"warn", partial_msg, total - st.success_count>>)

\* The messages _do_install passes to display_operation_results.
SuccessMsg == "Installation process finished."
PartialMsg == "Installation completed with errors."

\* A step of the dispatcher: the lock and the cache stay as they are.
DispatchOnly == UNCHANGED <<lockvars, threadvars, cachevars>>

\* run_parallel_tasks(tasks, _install_provider): `if not tasks: return []`,
\* else ThreadPoolExecutor(max_workers=len(tasks)).
CallRunParallelTasks ==
    /\ caller = "idle"
    /\ \E ts \in TaskLists :
          /\ func' = "run_parallel_tasks"
          /\ tasks' = ts
          /\ caller' = IF ts = <<>> THEN "returned" ELSE "submit"
    /\ UNCHANGED <<futures, yielded, results, all_results, log>>

\* search_all(query): `if not available: return []`, else
\* ThreadPoolExecutor(max_workers=len(available)).
CallSearchAll ==
    /\ caller = "idle"
    /\ \E available \in AvailableLists :
          /\ func' = "search_all"
          /\ tasks' = available
          /\ caller' = IF available = <<>> THEN "returned" ELSE "submit"
    /\ UNCHANGED <<futures, yielded, results, all_results, log>>

\* executor.submit(worker_func, *task) for the next task.
Submit ==
    /\ caller = "submit"
    /\ futures' = Append(futures, [state |-> "running"])
    /\ caller' = IF Len(futures) + 1 = Len(tasks) THEN "collect" ELSE "submit"
    /\ UNCHANGED <<func, tasks, yielded, results, all_results, log>>

\* The worker function of the call and what its provider may do.
Outcomes(i) ==
    IF func = "run_parallel_tasks" THEN InstallOutcomes
    ELSE SearchOutcomes(tasks[i])
worker_func(i, what) ==
    IF func = "run_parallel_tasks" THEN install_provider(tasks[i], what)
    ELSE search_provider(what)

\* The worker of future i runs its function to the end; the executor stores
\* the value returned, or the exception raised, in the future.
WorkerEnds(i) ==
    /\ i \in 1..Len(futures)
    /\ futures[i].state = "running"
    /\ \E what \in Outcomes(i) :
          LET end == worker_func(i, what)
          IN  futures' = [futures EXCEPT ![i] =
                  [state |-> "finished", what |-> what, raised |-> end.raised,
                   value |-> end.value, late |-> caller = "unwind"]]
    /\ UNCHANGED <<func, caller, tasks, yielded, results, all_results, log>>

\* as_completed(futures) yields each future once, when it has finished.
YieldedAgain(i) == TRUE
NotYielded(i) == \A j \in 1..Len(yielded) : yielded[j] # i

\* One round of `for future in as_completed(futures)`: future.result()
\* returns the worker's value, which is added to the list, or raises the
\* worker's exception, which leaves the loop.
Collect(i) ==
    /\ caller = "collect"
    /\ i \in 1..Len(futures)
    /\ futures[i].state = "finished"
    /\ NotYielded(i)
    /\ yielded' = Append(yielded, i)
    /\ IF futures[i].raised
       THEN caller' = "unwind" /\ UNCHANGED <<results, all_results>>
       ELSE /\ caller' = "collect"
            /\ IF func = "run_parallel_tasks"
               THEN /\ results' = Append(results, futures[i].value)
                    /\ UNCHANGED all_results
               ELSE /\ all_results' = Extend(all_results, futures[i].value)
                    /\ UNCHANGED results
    /\ UNCHANGED <<func, tasks, futures, log>>

\* The exit of `with ThreadPoolExecutor(...) as executor` is
\* executor.shutdown(wait=True): it joins every worker thread, and a worker
\* thread ends only when no work item is left.
ShutdownDoesNotWait == TRUE
ShutdownWaits == \A i \in 1..Len(futures) : futures[i].state = "finished"

\* The loop has ended, the with block is left and the list is returned.
FunctionReturns ==
    /\ caller = "collect"
    /\ Len(yielded) = Len(futures)
    /\ ShutdownWaits
    /\ caller' = "returned"
    /\ UNCHANGED <<func, tasks, futures, yielded, results, all_results, log>>

\* The exception of future.result() leaves the with block and the function.
FunctionRaises ==
    /\ caller = "unwind"
    /\ ShutdownWaits
    /\ caller' = "raised"
    /\ UNCHANGED <<func, tasks, futures, yielded, results, all_results, log>>

\* _do_install passes the results on to display_operation_results.
Display ==
    /\ caller = "returned"
    /\ func = "run_parallel_tasks"
    /\ log' = display_operation_results(results, SuccessMsg, PartialMsg)
    /\ caller' = "displayed"
    /\ UNCHANGED <<func, tasks, futures, yielded, results, all_results>>

NextDispatch ==
    \/ CallRunParallelTasks /\ DispatchOnly
    \/ CallSearchAll /\ DispatchOnly
    \/ Submit /\ DispatchOnly
    \/ \E i \in 1..MaxTasks : WorkerEnds(i) /\ DispatchOnly
    \/ \E i \in 1..MaxTasks : Collect(i) /\ DispatchOnly
    \/ FunctionReturns /\ DispatchOnly
    \/ FunctionRaises /\ DispatchOnly
    \/ Display /\ DispatchOnly

SpecDispatch == Init /\ [][NextDispatch]_vars

----------------------------------------------------------------------------
\* Properties of the dispatcher.

\* The operation of a task (mgr.install) has raised an error: a CommandError
\* or another Exception.
OperationError(what) == what \in {"CommandError", "Exception"}

\* The exception that future.result() has raised in the caller.
Propagated == futures[yielded[Len(yielded)]].value

\* The caller has the list that run_parallel_tasks returned.
HasResults ==
    func = "run_parallel_tasks" /\ caller \in {"returned", "displayed"}

\* C11: when the operation of a task of run_parallel_tasks raises an error,
\* the worker function ends with the result (identifier, False, message) of
\* that task, where the message names the error; no such error is the
\* exception that run_parallel_tasks raises in its caller; and the list
\* returned holds, for every task, that task's own result with its own
\* success value (True exactly when its operation returned).
C11_ErrorsCaptured ==
    func = "run_parallel_tasks" =>
        /\ \A i \in 1..Len(futures) :
              (futures[i].state = "finished" /\ OperationError(futures[i].what)) =>
                  /\ ~futures[i].raised
                  /\ futures[i].value =
                        <<tasks[i], FALSE,
                          <<"Failed to install via", tasks[i], futures[i].what>>>>
        /\ caller \in {"unwind", "raised"} => ~OperationError(Propagated)
        /\ HasResults =>
              \A i \in 1..Len(tasks) :
                  \E j \in 1..Len(results) :
                      /\ yielded[j] = i
                      /\ results[j] = futures[i].value
                      /\ results[j][1] = tasks[i]
                      /\ results[j][2] = (futures[i].what = "ok")

\* Three tasks, the operation of the second one raised, and the call has
\* returned the results of all three.
C11_Witness ==
    /\ HasResults
    /\ Len(tasks) = 3
    /\ futures[1].what = "ok"
    /\ futures[2].what = "Exception"
    /\ futures[3].what = "ok"
    /\ Len(results) = 3

\* C12: the list run_parallel_tasks returns has one result per task, in
\* whatever order the workers ended: it is as long as the list of tasks,
\* every task has exactly one position in it, the result there carries the
\* task's identifier, so every identifier is in the results as often as in
\* the tasks; for an empty list of tasks nothing is submitted and the list
\* returned is empty.
C12_OneResultPerTask ==
    HasResults =>
        /\ Len(results) = Len(tasks)
        /\ \A i \in 1..Len(tasks) :
              Cardinality({j \in 1..Len(results) : yielded[j] = i}) = 1
        /\ \A j \in 1..Len(results) : results[j][1] = tasks[yielded[j]]
        /\ \A p \in Providers :
              Cardinality({j \in 1..Len(results) : results[j][1] = p})
                  = Cardinality({i \in 1..Len(tasks) : tasks[i] = p})
        /\ tasks = <<>> => futures = <<>> /\ results = <<>>

\* Three tasks whose results came back in another order than submitted.
C12_Witness ==
    /\ HasResults
    /\ Len(tasks) = 3
    /\ yielded = <<3, 1, 2>>

\* C13: when run_parallel_tasks has returned or raised, one future has been
\* submitted for every task and every one of them has finished: no worker
\* is left running and none was cancelled, also when the call raises.
C13_ReturnsAfterAllWorkers ==
    (func = "run_parallel_tasks" /\ caller \in {"returned", "raised", "displayed"}) =>
        /\ Len(futures) = Len(tasks)
        /\ \A i \in 1..Len(futures) : futures[i].state = "finished"

\* The call has raised, and a worker that was still running when the
\* exception left the loop has run to its end before that.
C13_Witness ==
    /\ func = "run_parallel_tasks"
    /\ caller = "raised"
    /\ \E i \in 1..Len(futures) : futures[i].late

\* C14: display_operation_results logs, after a blank line, the message of
\* every result once, in order, as a success if the result succeeded and as
\* an error if not; it ends with the success message if the number of
\* successful results equals the number of results, and otherwise with the
\* partial-failure message and the number of results that failed.
C14_DisplaySummary ==
    caller = "displayed" =>
        LET total == Len(results)
            successes == Cardinality({j \in 1..total : results[j][2]})
        IN  /\ Len(log) = total + 2
            /\ log[1] = <<"blank">>
            /\ \A j \in 1..total :
                  log[j + 1] = <<IF results[j][2] THEN "success" ELSE "error",
                                 results[j][3]>>
            /\ log[total + 2] =
                  IF successes = total
                  THEN <<"success", SuccessMsg>>
                  ELSE <<"warn", PartialMsg, total - successes>>

\* A batch of three with one success and two failures has been displayed.
C14_Witness ==
    /\ caller = "displayed"
    /\ Len(results) = 3
    /\ Cardinality({j \in 1..3 : results[j][2]}) = 1
    /\ log[5] = <<"warn", PartialMsg, 2>>

\* The lists that the searches of the first k yielded futures returned,
\* joined in that order; a search that returned None or raised gives nothing.
RECURSIVE Gathered(_)
Gathered(k) ==
    IF k = 0 THEN <<>>
    ELSE Gathered(k - 1) \o
            (IF futures[yielded[k]].what.kind = "returns"
             THEN futures[yielded[k]].what.value
             ELSE <<>>)

\* C15: search_all returns the result lists of the available providers
\* whose search returned, each provider's list once and whole, joined in the
\* order in which the searches ended; a provider whose search raised an
\* Exception adds nothing, and the call still returns; with no available
\* provider nothing is submitted and the list returned is empty.
C15_SearchAllUnion ==
    func = "search_all" =>
        /\ caller = "returned" =>
              /\ Len(yielded) = Len(tasks)
              /\ \A i \in 1..Len(tasks) : \E j \in 1..Len(yielded) : yielded[j] = i
              /\ all_results = Gathered(Len(yielded))
        /\ caller \in {"unwind", "raised"} => Propagated = "BaseException"
        /\ tasks = <<>> => caller = "returned" /\ futures = <<>> /\ all_results = <<>>

\* Two providers: the search of the first raised, the search of the second
\* found two packages, and search_all has returned those two.
C15_Witness ==
    /\ func = "search_all"
    /\ caller = "returned"
    /\ Len(tasks) = 2
    /\ futures[1].what = [kind |-> "raises", exc |-> "Exception"]
    /\ futures[2].what.kind = "returns"
    /\ Len(futures[2].what.value) = 2
    /\ all_results = futures[2].what.value

----------------------------------------------------------------------------
\* SearchCache (mixtura/cache.py): the search cache of one provider.
\*
\* store is what self.cache_file holds:
\*   [kind |-> "missing"]                 there is no file
\*   [kind |-> "mapping", entries |-> m]  a JSON object: m maps a query to its
\*                                        entry {"timestamp": t, "results": r}
\*   [kind |-> "unreadable"]              open() raises IOError
\*   [kind |-> "not_json"]                text that json.load rejects
\*   [kind |-> "not_utf8"]                bytes that are no UTF-8 text
\*   [kind |-> "list", items |-> s]       a JSON array of the strings s
\*   [kind |-> "number"]                  a JSON number
\* json.dump and json.load keep strings, booleans, null, the integer
\* timestamps of the model, lists and objects as they are, so an entry is
\* held in its parsed form.
\* ret tells how the last call of get or set ended: raised is "no" or the
\* exception that left the call; absent is whether get returned None and
\* value is the list it returned otherwise; for set, value is the argument
\* results; evicted records that get took its branch for an expired entry.

TTL_SECONDS == 300

\* Most multiples of TTL_SECONDS the clock reaches.
MaxPeriods == 2

\* The values of time.time(): on and just after each multiple of the TTL.
Instants == {k * TTL_SECONDS + j : k \in 0..MaxPeriods, j \in {0, 1}}

Queries == {"git", "vim"}

\* The packages the cache is called with.
pkgGit == Package("git", "nixpkgs", "git", "2.43.0", "", FALSE, None, <<>>)
pkgVim == Package("vim", "nixpkgs", "vim", "9.1.0", "", FALSE, None, <<>>)
pkgSpotify ==
    Package("Spotify", "flatpak", "com.spotify.Client", "1.2.0", "Music",
            TRUE, "flathub", [k \in {"branch"} |-> "stable"])
pkgNoId == Package("micro", "nixpkgs", "", "2.0.13", "", FALSE, None, <<>>)
SampleResults ==
    {<<>>, <<pkgGit, pkgVim>>, <<pkgVim, pkgGit>>, <<pkgSpotify>>, <<pkgNoId>>}

\* The value json.load returns, by its Python type.
Dict(entries) == [type |-> "dict", entries |-> entries]

\* _load_cache: a missing file gives {}; IOError and json.JSONDecodeError
\* are caught and give {}; a UnicodeDecodeError is neither; any JSON value is
\* returned as it is.
load_cache ==
    IF store.kind = "missing" THEN Returned(Dict(<<>>))
    ELSE IF store.kind \in {"unreadable", "not_json"} THEN Returned(Dict(<<>>))
    ELSE IF store.kind = "not_utf8" THEN Raised("UnicodeDecodeError")
    ELSE IF store.kind = "mapping" THEN Returned(Dict(store.entries))
    ELSE IF store.kind = "list"
    THEN Returned([type |-> "list", items |-> store.items])
    ELSE Returned([type |-> "int"])

\* _save_cache(cache): the file is rewritten as a whole and an IOError is
\* swallowed.  When open(..., 'w') raises, the file stays as it was; open
\* truncates the file, so when a write raises after it the file is left
\* empty or with a prefix of the text, which json.load rejects.
save_cache(entries) ==
    IF ~writable THEN UNCHANGED store
    ELSE IF full THEN store' = [kind |-> "not_json"]
    ELSE store' = [kind |-> "mapping", entries |-> entries]

\* _serialize_results and _deserialize_results
serialize_results(pkgs) == [i \in 1..Len(pkgs) |-> to_dict(pkgs[i])]
deserialize_results(data) == [i \in 1..Len(data) |-> from_dict(data[i], "unknown")]

\* current_time - timestamp > self.TTL_SECONDS
ExpiredAtTTL(timestamp, current_time) == current_time - timestamp >= TTL_SECONDS
Expired(timestamp, current_time) == current_time - timestamp > TTL_SECONDS

\* del cache[query]
DeleteNothing(entries, query) == entries
Delete(entries, query) == [k \in DOMAIN entries \ {query} |-> entries[k]]

\* cache[query] = entry
AssignIfAbsent(entries, query, entry) ==
    [k \in DOMAIN entries \cup {query} |->
        IF k \in DOMAIN entries THEN entries[k] ELSE entry]
Assign(entries, query, entry) ==
    [k \in DOMAIN entries \cup {query} |-> IF k = query THEN entry ELSE entries[k]]

\* How a call of the cache ends.
CallRaised(op, query, e) ==
    [op |-> op, query |-> query, raised |-> e, absent |-> FALSE,
     value |-> <<>>, evicted |-> FALSE]
GetReturnedNone(query, evicted) ==
    [op |-> "get", query |-> query, raised |-> "no", absent |-> TRUE,
     value |-> <<>>, evicted |-> evicted]
GetReturned(query, pkgs) ==
    [op |-> "get", query |-> query, raised |-> "no", absent |-> FALSE,
     value |-> pkgs, evicted |-> FALSE]
SetReturned(query, pkgs) ==
    [op |-> "set", query |-> query, raised |-> "no", absent |-> FALSE,
     value |-> pkgs, evicted |-> FALSE]

\* A step of the cache: the lock and the dispatcher stay as they are.
CacheOnly == UNCHANGED <<lockvars, threadvars, dispatchvars>>

\* get(query).  `query not in cache` and cache[query] raise TypeError when
\* the value loaded is no dict: a number has no `in`, a list has it but takes
\* no string as an index.
get(query) ==
    /\ LET load == load_cache
       IN  IF load.raised
           THEN ret' = CallRaised("get", query, load.value) /\ UNCHANGED store
           ELSE LET cache == load.value
                IN  IF cache.type = "int"
                    THEN /\ ret' = CallRaised("get", query, "TypeError")
                         /\ UNCHANGED store
                    ELSE IF cache.type = "list"
                    THEN /\ ret' = IF query \notin cache.items
                                   THEN GetReturnedNone(query, FALSE)
                                   ELSE CallRaised("get", query, "TypeError")
                         /\ UNCHANGED store
                    ELSE IF query \notin DOMAIN cache.entries
                    THEN /\ ret' = GetReturnedNone(query, FALSE)
                         /\ UNCHANGED store
                    ELSE LET entry == cache.entries[query]
                             timestamp == DictGet(entry, "timestamp", 0)
                             results_data == DictGet(entry, "results", <<>>)
                         IN  IF Expired(timestamp, now)
                             THEN /\ save_cache(Delete(cache.entries, query))
                                  /\ ret' = GetReturnedNone(query, TRUE)
                             ELSE /\ ret' = GetReturned(query,
                                               deserialize_results(results_data))
                                  /\ UNCHANGED store
    /\ UNCHANGED <<other_store, local, writable, full, now>>

\* set(query, results), with pkgs for results.  cache[query] = {...} raises TypeError when the
\* value loaded is a list or a number.
set(query, pkgs) ==
    /\ LET load == load_cache
       IN  IF load.raised
           THEN ret' = CallRaised("set", query, load.value) /\ UNCHANGED store
           ELSE LET cache == load.value
                IN  IF cache.type # "dict"
                    THEN /\ ret' = CallRaised("set", query, "TypeError")
                         /\ UNCHANGED store
                    ELSE /\ save_cache(Assign(cache.entries, query,
                                [timestamp |-> now,
                                 results |-> serialize_results(pkgs)]))
                         /\ ret' = SetReturned(query, pkgs)
    /\ UNCHANGED <<other_store, local, writable, full, now>>

\* Time passes.
Tick ==
    /\ \E t \in Instants : t > now /\ now' = t
    /\ UNCHANGED <<store, other_store, local, writable, full, ret>>

NextCache ==
    \/ \E query \in Queries : get(query) /\ CacheOnly
    \/ \E query \in Queries : \E pkgs \in SampleResults :
          set(query, pkgs) /\ CacheOnly
    \/ Tick /\ CacheOnly

\* A provider that starts without a cache file.
SpecCache == Init /\ [][NextCache]_vars

\* Cache files that hold no mapping from queries to entries.
InvalidStores ==
    {[kind |-> "unreadable"], [kind |-> "not_json"], [kind |-> "not_utf8"],
     [kind |-> "list", items |-> {}], [kind |-> "list", items |-> {"git"}],
     [kind |-> "number"]}

\* A provider that starts with such a file.
InitInvalid ==
    /\ LockInit
    /\ NoCall
    /\ store \in InvalidStores
    /\ other_store = [kind |-> "missing"]
    /\ local = NoCalls
    /\ writable = TRUE
    /\ full = FALSE
    /\ now = 0
    /\ ret = [op |-> "none"]

SpecCacheInvalid == InitInvalid /\ [][NextCache]_vars

----------------------------------------------------------------------------
\* Properties of the cache.

\* The store holds an entry for the query.
HasEntry(query) == store.kind = "mapping" /\ query \in DOMAIN store.entries

\* The entries of the store; a missing file holds none.
Entries == IF store.kind = "mapping" THEN store.entries ELSE <<>>

\* C16: get(query) returns None exactly when the store has no entry for the
\* query or the entry is more than 300 seconds old; otherwise, also at an
\* age of exactly 300 seconds, it returns the packages of the entry's stored
\* results.
C16_GetWithinTTL ==
    [][\A query \in Queries :
          get(query) =>
              /\ ret'.raised = "no"
              /\ ret'.absent <=>
                    (~HasEntry(query)
                        \/ now - store.entries[query].timestamp > 300)
              /\ ~ret'.absent =>
                    ret'.value =
                        [i \in 1..Len(store.entries[query].results) |->
                            from_dict(store.entries[query].results[i], "unknown")]
      ]_vars

\* get has returned the packages of an entry that is exactly 300 seconds old.
C16_Witness ==
    /\ ret.op = "get"
    /\ ~ret.absent
    /\ ret.value # <<>>
    /\ HasEntry(ret.query)
    /\ now - store.entries[ret.query].timestamp = 300

\* C17: a get that finds an entry more than 300 seconds old leaves the store
\* without that entry and with every other entry as it was; every other get
\* leaves the store as it was.
C17_GetEvictsExpired ==
    [][\A query \in Queries :
          get(query) =>
              IF HasEntry(query) /\ now - store.entries[query].timestamp > 300
              THEN /\ store'.kind = "mapping"
                   /\ DOMAIN store'.entries = DOMAIN store.entries \ {query}
                   /\ \A k \in DOMAIN store'.entries :
                         store'.entries[k] = store.entries[k]
              ELSE store' = store
      ]_vars

\* get has evicted the expired entry of its query and the store still holds
\* the entry of the other query.
C17_Witness ==
    /\ ret.op = "get"
    /\ ret.evicted
    /\ store.kind = "mapping"
    /\ ret.query \notin DOMAIN store.entries
    /\ DOMAIN store.entries # {}

C19_CacheRoundTrip ==
    [][\A query \in Queries :
          (/\ ret.op = "set" /\ ret.query = query
           /\ get(query)
           /\ ~ret'.absent) =>
              /\ Len(ret'.value) = Len(ret.value)
              /\ \A i \in 1..Len(ret.value) :
                    \A f \in PackageFields : ret'.value[i][f] = ret.value[i][f]
      ]_vars

\* The content of the cache file is no mapping from queries to entries.
InvalidStore == store.kind \notin {"missing", "mapping"}

\* C20: while the cache file holds invalid content or cannot be read, every
\* get returns None and raises nothing, and a set starts from the empty
\* mapping: it returns and leaves a store with the entry of its query only.
C20_InvalidStoreIsEmpty ==
    [][InvalidStore =>
          /\ \A query \in Queries :
                get(query) => ret'.raised = "no" /\ ret'.absent
          /\ \A query \in Queries : \A pkgs \in SampleResults :
                set(query, pkgs) =>
                    /\ ret'.raised = "no"
                    /\ store'.kind = "mapping"
                    /\ DOMAIN store'.entries = {query}
      ]_vars

----------------------------------------------------------------------------
\* The cache on a file system that fails.

\* The file system changes: it stops or starts taking changes, it runs out
\* of room or gets room again (room plays no part while open() raises).
Fault ==
    /\ \E w \in BOOLEAN : \E f \in BOOLEAN :
          /\ <<w, f>> # <<writable, full>>
          /\ w \/ ~f
          /\ writable' = w
          /\ full' = f
    /\ UNCHANGED <<store, other_store, local, now, ret>>

NextCacheFaults ==
    \/ NextCache
    \/ Fault /\ CacheOnly

SpecCacheFaults == Init /\ [][NextCacheFaults]_vars

\* The write of _save_cache raises: at open() or after it.
WriteFails == ~writable \/ full

\* C21: a set whose write to the file fails returns without raising and
\* leaves the store with exactly the entries it had before the call (so that
\* a later get finds what it would have found without the set).
C21_FailedSetDropped ==
    [][\A query \in Queries : \A pkgs \in SampleResults :
          (set(query, pkgs) /\ WriteFails) =>
              /\ ret'.raised = "no"
              /\ Entries' = Entries
      ]_vars

----------------------------------------------------------------------------
\* clear(), beside the cache of another provider.

\* How clear() ends: it returns None.
ClearReturned == [op |-> "clear", raised |-> "no"]

\* self.cache_file.unlink(): the file of this provider goes, no other.
Unlink ==
    /\ store' = [kind |-> "missing"]
    /\ UNCHANGED other_store

\* clear(): the file is removed when it exists; an IOError of unlink() is
\* swallowed and the file stays.
clear ==
    /\ IF store.kind = "missing" THEN UNCHANGED <<store, other_store>>
       ELSE IF writable THEN Unlink
       ELSE UNCHANGED <<store, other_store>>
    /\ ret' = ClearReturned
    /\ UNCHANGED <<local, writable, full, now>>

\* The SearchCache of another provider stores an empty result list for a
\* query in its own file, or clears it.
OtherSet(query) ==
    /\ writable /\ ~full
    /\ other_store' =
          [kind |-> "mapping",
           entries |-> Assign(IF other_store.kind = "mapping"
                              THEN other_store.entries ELSE <<>>,
                              query,
                              [timestamp |-> now,
                               results |-> serialize_results(<<>>)])]
    /\ UNCHANGED <<store, local, writable, full, now, ret>>
OtherClear ==
    /\ writable
    /\ other_store.kind # "missing"
    /\ other_store' = [kind |-> "missing"]
    /\ UNCHANGED <<store, local, writable, full, now, ret>>

NextCacheClear ==
    \/ \E query \in Queries : get(query) /\ CacheOnly
    \/ \E query \in Queries : \E pkgs \in SampleResults :
          set(query, pkgs) /\ CacheOnly
    \/ clear /\ CacheOnly
    \/ \E query \in Queries : OtherSet(query) /\ CacheOnly
    \/ OtherClear /\ CacheOnly
    \/ Fault /\ CacheOnly

\* The cache file at the start: missing, an empty mapping, or invalid.
InitClear ==
    /\ LockInit
    /\ NoCall
    /\ store \in InvalidStores
                    \cup {[kind |-> "missing"],
                          [kind |-> "mapping", entries |-> <<>>]}
    /\ other_store = [kind |-> "missing"]
    /\ local = NoCalls
    /\ writable = TRUE
    /\ full = FALSE
    /\ now = 0
    /\ ret = [op |-> "none"]

SpecCacheClear == InitClear /\ [][NextCacheClear]_vars

\* C22: clear() does not raise and leaves the file of the other provider as
\* it was; a get that follows clear() returns None, whatever the store held
\* before (entries, none, no file, invalid content); a clear() that follows
\* clear() changes nothing.
C22_ClearRemovesAll ==
    [][/\ clear => ret'.raised = "no" /\ other_store' = other_store
       /\ \A query \in Queries :
             (ret.op = "clear" /\ get(query)) =>
                 ret'.raised = "no" /\ ret'.absent
       /\ (ret.op = "clear" /\ clear) => store' = store
      ]_vars

----------------------------------------------------------------------------
\* Two processes on one cache file.
\*
\* Nothing locks the file, so a call is not one step: _load_cache reads the
\* file; _save_cache opens it, which truncates it, writes the text in
\* pieces, and closes it.  local[p].at tells where process p is: "idle",
\* "loaded" (before open), "opened" (before close).  A process that reads the
\* file while another is between open and close gets the prefix written so
\* far.  local[p].mixed records that another process wrote to the file while
\* p had it open: the bytes of the two texts are then interleaved.

\* A package whose description has a character of two bytes in UTF-8.
pkgMusica ==
    Package("musica", "flatpak", "org.musica.App", "1.0", "Reprodutor de música",
            FALSE, None, <<>>)

\* The result lists the processes store.
SharedResults == {<<pkgGit>>, <<pkgMusica>>}

\* json.dump(..., ensure_ascii=False) writes such a character as it is.
Multibyte == {"Reprodutor de música"}
HasMultibyte(entries) ==
    \E query \in DOMAIN entries :
        \E i \in 1..Len(entries[query].results) :
            entries[query].results[i].description \in Multibyte

\* What the file can hold while the text of entries is being written: nothing
\* or a prefix of the text, which is no JSON; a prefix that ends inside a
\* character of several bytes is no UTF-8 text.
Prefixes(entries) ==
    {[kind |-> "not_json"]}
        \cup (IF HasMultibyte(entries) THEN {[kind |-> "not_utf8"]} ELSE {})

\* Process p is between _load_cache and _save_cache with the mapping entries;
\* the call will end as ending.
Loaded(entries, ending) ==
    [at |-> "loaded", entries |-> entries, ending |-> ending, mixed |-> FALSE]

\* Another process wrote to the file: the processes that have it open.
Mix(p) ==
    [q \in Procs |->
        IF q # p /\ local[q].at = "opened"
        THEN [local[q] EXCEPT !.mixed = TRUE] ELSE local[q]]

\* set(query, pkgs) up to _save_cache.
StartSet(p, query, pkgs) ==
    /\ local[p].at = "idle"
    /\ LET load == load_cache
       IN  IF load.raised
           THEN ret' = CallRaised("set", query, load.value) /\ UNCHANGED local
           ELSE LET cache == load.value
                IN  IF cache.type # "dict"
                    THEN /\ ret' = CallRaised("set", query, "TypeError")
                         /\ UNCHANGED local
                    ELSE /\ local' = [local EXCEPT ![p] =
                                Loaded(Assign(cache.entries, query,
                                           [timestamp |-> now,
                                            results |-> serialize_results(pkgs)]),
                                       SetReturned(query, pkgs))]
                         /\ UNCHANGED ret
    /\ UNCHANGED <<store, other_store, writable, full, now>>

\* get(query) up to its return or up to _save_cache.
StartGet(p, query) ==
    /\ local[p].at = "idle"
    /\ LET load == load_cache
       IN  IF load.raised
           THEN ret' = CallRaised("get", query, load.value) /\ UNCHANGED local
           ELSE LET cache == load.value
                IN  IF cache.type = "int"
                    THEN /\ ret' = CallRaised("get", query, "TypeError")
                         /\ UNCHANGED local
                    ELSE IF cache.type = "list"
                    THEN /\ ret' = IF query \notin cache.items
                                   THEN GetReturnedNone(query, FALSE)
                                   ELSE CallRaised("get", query, "TypeError")
                         /\ UNCHANGED local
                    ELSE IF query \notin DOMAIN cache.entries
                    THEN /\ ret' = GetReturnedNone(query, FALSE)
                         /\ UNCHANGED local
                    ELSE LET entry == cache.entries[query]
                             timestamp == DictGet(entry, "timestamp", 0)
                             results_data == DictGet(entry, "results", <<>>)
                         IN  IF Expired(timestamp, now)
                             THEN /\ local' = [local EXCEPT ![p] =
                                         Loaded(Delete(cache.entries, query),
                                                GetReturnedNone(query, TRUE))]
                                  /\ UNCHANGED ret
                             ELSE /\ ret' = GetReturned(query,
                                               deserialize_results(results_data))
                                  /\ UNCHANGED local
    /\ UNCHANGED <<store, other_store, writable, full, now>>

\* _save_cache: open(self.cache_file, 'w').  The file is emptied; an IOError
\* ends _save_cache and with it the call.
Open(p) ==
    /\ local[p].at = "loaded"
    /\ IF writable
       THEN /\ store' = [kind |-> "not_json"]
            /\ local' = [Mix(p) EXCEPT ![p].at = "opened"]
            /\ UNCHANGED ret
       ELSE /\ local' = [local EXCEPT ![p] = [at |-> "idle"]]
            /\ ret' = local[p].ending
            /\ UNCHANGED store
    /\ UNCHANGED <<other_store, writable, full, now>>

\* _save_cache: the buffer is written out while json.dump is going on.
Flush(p) ==
    /\ local[p].at = "opened"
    /\ ~full
    /\ store' \in Prefixes(local[p].entries)
    /\ local' = Mix(p)
    /\ UNCHANGED <<other_store, writable, full, now, ret>>

\* _save_cache: the rest is written and the file is closed; the call ends.
\* An IOError leaves the file as it is.  After writes of another process the
\* file holds the text of this one or a mixture of the two.
Close(p) ==
    /\ local[p].at = "opened"
    /\ IF full THEN UNCHANGED store
       ELSE IF local[p].mixed
       THEN store' \in {[kind |-> "mapping", entries |-> local[p].entries],
                        [kind |-> "not_json"]}
       ELSE store' = [kind |-> "mapping", entries |-> local[p].entries]
    /\ local' = [Mix(p) EXCEPT ![p] = [at |-> "idle"]]
    /\ ret' = local[p].ending
    /\ UNCHANGED <<other_store, writable, full, now>>

\* Time passes, once: to an instant at which what was stored before has
\* expired.
Expire ==
    /\ now = 0
    /\ now' = TTL_SECONDS + 1
    /\ UNCHANGED <<store, other_store, local, writable, full, ret>>

NextCacheShared ==
    \/ \E p \in Procs : \E query \in Queries : \E pkgs \in SharedResults :
          StartSet(p, query, pkgs) /\ CacheOnly
    \/ \E p \in Procs : \E query \in Queries : StartGet(p, query) /\ CacheOnly
    \/ \E p \in Procs : Open(p) /\ CacheOnly
    \/ \E p \in Procs : Flush(p) /\ CacheOnly
    \/ \E p \in Procs : Close(p) /\ CacheOnly
    \/ Expire /\ CacheOnly

SpecCacheShared == Init /\ [][NextCacheShared]_vars

\* The packages get returns for the results of a set.
ReadBack(pkgs) == deserialize_results(serialize_results(pkgs))

\* C23: whatever the interleaving of two processes on one cache file, no call
\* of get or set raises, and a get returns None or the packages that a set
\* stored.
C23_RacesAreBenign ==
    ret.op \in {"get", "set"} =>
        /\ ret.raised = "no"
        /\ (ret.op = "get" /\ ~ret.absent) =>
              \E pkgs \in SharedResults : ret.value = ReadBack(pkgs)

----------------------------------------------------------------------------
\* More properties of the lock under shared() and exclusive().

\* C24: deadlock freedom.  While some thread is inside a context manager,
\* some such thread is not in a wait set, and every such thread that is in no
\* wait set can take its next step (the bodies end: Return, ExitShared and
\* ExitExclusive are steps of the thread).
C24_NoDeadlock ==
    /\ (\E t \in Threads : Inside(t)) =>
           \E t \in Threads : Inside(t) /\ ~Blocked(t)
    /\ \A t \in Threads : (Inside(t) /\ ~Blocked(t)) => ENABLED Step(t)

\* Two threads escalate at the same time: one is in its exclusive body, the
\* other has released its shared holds and waits in acquire_exclusive.
C24_Witness ==
    \E t, u \in Threads :
        /\ t # u
        /\ InExclusiveBody(t) /\ Top(t).is_reader
        /\ pc[u] = "ex_wait" /\ u \in writers_ok /\ Top(u).is_reader

\* Threads that hold shared and escalate: each thread runs
\* `with shared(): with exclusive(): ...` once, under fair scheduling: a
\* thread that is in the lock's code or at the end of a body takes its next
\* step (weak fairness); raising, and opening a context manager, are up to
\* the thread.
Advance(t) ==
    /\ \/ SharedWake(t) \/ ExitShared(t)
       \/ EscalateRelease(t) \/ ExclusiveAcquire(t)
       \/ ExclusiveWake(t) \/ ExitExclusive(t) \/ EscalateRestore(t)
       \/ EscalateRestoreWake(t) \/ Return(t)
    /\ LockOnly

\* The thread opens its next context manager; it has not left one yet.
Opens(t) ==
    /\ opened[t] = Len(stack[t])
    /\ opened' = [opened EXCEPT ![t] = @ + 1]
    /\ UNCHANGED <<dispatchvars, cachevars>>

NextEscalators ==
    \E t \in Threads :
        \/ stack[t] = <<>> /\ EnterShared(t) /\ Opens(t)
        \/ Len(stack[t]) = 1 /\ EnterExclusive(t) /\ Opens(t)
        \/ Advance(t)
        \/ (Raise(t) \/ Catch(t)) /\ LockOnly

SpecEscalators ==
    /\ Init
    /\ [][NextEscalators]_vars
    /\ \A t \in Threads : WF_vars(Advance(t))

\* The thread is in exclusive() on the escalation path, before its body.
Escalating(t) ==
    pc[t] \in {"ex_release", "ex_acquire", "ex_wait"} /\ Top(t).is_reader

\* C24, for threads that escalate at the same time: every escalating thread
\* reaches its exclusive body, and exclusive() returns to it with its shared
\* holds back.
C24_EscalatorsProgress ==
    \A t \in Threads :
        /\ Escalating(t) ~> InExclusiveBody(t)
        /\ Escalating(t) ~>
              (pc[t] = "returned" /\ Top(t).kind = "exclusive"
                  /\ Holds(t) = Top(t).held)

\* The two gaps of an escalation: the thread has released its shared holds
\* and not yet acquired exclusive; it has released exclusive and not yet
\* restored a shared hold.
InGapBefore(t) == pc[t] \in {"ex_acquire", "ex_wait"} /\ Top(t).is_reader
InGapAfter(t) == pc[t] \in {"ex_restore", "ex_restore_wait"} /\ Top(t).i = 0

\* C25: escalation is not one continuous hold.  In both gaps the escalating
\* thread has no entry in the reader-hold map and is not the active writer
\* (active_writers counts the other threads that are in an exclusive body),
\* so the lock is open to the other threads.
C25_EscalationGaps ==
    \A t \in Threads :
        (InGapBefore(t) \/ InGapAfter(t)) =>
            /\ ~IsReader(t)
            /\ active_writers =
                  Cardinality({u \in Threads \ {t} : InExclusiveBody(u)})

\* A thread that has escalated and left its exclusive body waits for its
\* shared holds while another thread, which acquired exclusive in that gap,
\* is in its exclusive body.
C25_Witness ==
    \E t, u \in Threads :
        /\ t # u
        /\ pc[t] = "ex_restore_wait" /\ Top(t).i = 0 /\ t \in readers_ok
        /\ InExclusiveBody(u)
        /\ active_writers = 1

\* The number of threads that have an entry in the reader-hold map.
ReaderCount == Cardinality(DOMAIN reader_threads)

\* C26: active_readers is the number of threads that have an entry in the
\* reader-hold map and every entry is at least 1; a step that gives a thread
\* one more hold adds one to active_readers only when it is the thread's first
\* hold; a step that takes a hold takes one, and takes one from
\* active_readers only when it was the thread's last hold, and the writers
\* are woken when active_readers reaches 0.
C26_ReaderAccounting ==
    /\ [](/\ active_readers = ReaderCount
          /\ \A t \in DOMAIN reader_threads : reader_threads[t] >= 1)
    /\ [][\A t \in Threads :
             /\ Holds(t)' > Holds(t) =>
                   /\ Holds(t)' = Holds(t) + 1
                   /\ active_readers' =
                         active_readers + (IF Holds(t) = 0 THEN 1 ELSE 0)
             /\ Holds(t)' < Holds(t) =>
                   /\ Holds(t)' = Holds(t) - 1
                   /\ active_readers' =
                         active_readers - (IF Holds(t)' = 0 THEN 1 ELSE 0)
                   /\ (Holds(t)' = 0 /\ active_readers' = 0) => writers_ok' = {}
             /\ Holds(t)' = Holds(t) =>
                   \/ active_readers' = active_readers
                   \/ \E u \in Threads : Holds(u)' # Holds(u)
      ]_vars

\* A thread has two holds and another one: two readers are counted for three
\* holds, and a writer waits for them.
C26_Witness ==
    /\ active_readers = 2
    /\ \E t \in Threads : Holds(t) = 2
    /\ writers_ok # {}

\* The sum of the hold counts of the threads in T.
RECURSIVE SumOfHolds(_)
SumOfHolds(T) ==
    IF T = {} THEN 0
    ELSE LET t == CHOOSE u \in T : TRUE
         IN  Holds(t) + SumOfHolds(T \ {t})

\* C27: active_readers is the number of shared holds granted, the sum of the
\* hold counts of all threads.
C27_CountsHolds == active_readers = SumOfHolds(Threads)

\* C27, amended: active_readers is the number of threads that hold shared,
\* each counted once whatever its hold count; it is at most the sum of the
\* hold counts and equal to it only while no thread holds more than once.
C27_CountsThreads ==
    /\ active_readers = Cardinality({t \in Threads : Holds(t) >= 1})
    /\ active_readers <= SumOfHolds(Threads)
    /\ active_readers = SumOfHolds(Threads) <=> \A t \in Threads : Holds(t) <= 1

\* A thread is in a shared body nested in a shared body: it has two holds
\* and is the one reader counted.
C27_Witness ==
    \E t \in Threads :
        /\ InSharedBody(t)
        /\ Len(stack[t]) = 2
        /\ Holds(t) = 2
        /\ active_readers = 1

\* A call of release_exclusive has just returned in thread t.
ReleasedExclusive(t) ==
    pc[t] = "returned" /\ Top(t).kind = "release_exclusive"

\* C28: when release_exclusive has returned, whatever the state it was called
\* in and whether or not the caller held the exclusive lock, active_writers
\* is 0 and both wait sets are empty; active_writers is never negative and
\* stays in {0, 1}.
C28_ReleaseExclusiveClears ==
    /\ [](active_writers \in {0, 1})
    /\ [][\A t \in Threads :
             (~ReleasedExclusive(t) /\ ReleasedExclusive(t)') =>
                 /\ active_writers' = 0
                 /\ readers_ok' = {}
                 /\ writers_ok' = {}
      ]_vars

\* Thread t is inside a direct call of acquire_exclusive.
InAcquireExclusive(t) ==
    pc[t] = "ex_wait" /\ Top(t).kind = "acquire_exclusive"

\* C29: a thread that has a shared hold and calls acquire_exclusive directly
\* never acquires the lock.  The call goes to wait at once; while the thread
\* is in the call it keeps its hold, active_readers stays above 0, and no
\* step gets it out of the call.
C29_DirectAcquireBlocks ==
    [][\A t \in Threads :
          /\ (IsReader(t) /\ RawAcquireExclusive(t)) =>
                InAcquireExclusive(t)' /\ t \in writers_ok'
          /\ (IsReader(t) /\ InAcquireExclusive(t)) =>
                /\ InAcquireExclusive(t)'
                /\ IsReader(t)'
                /\ active_readers' > 0
      ]_vars

\* The only reader is in acquire_exclusive and waits: no writer is active
\* and the one hold that active_readers counts is its own.
C29_Witness ==
    \E t \in Threads :
        /\ InAcquireExclusive(t)
        /\ Top(t).held >= 1
        /\ IsReader(t)
        /\ active_readers = 1
        /\ active_writers = 0
        /\ waiting_writers = 1
        /\ t \in writers_ok

----------------------------------------------------------------------------
\* Threads that also open a context manager inside an exclusive body.

\* The thread is in an exclusive body and may open a context manager there.
MayNest(t) ==
    /\ InBody(t)
    /\ Len(stack[t]) < MaxDepth
    /\ stack[t] # <<>>
    /\ Top(t).kind = "exclusive"

NextNested ==
    \/ Next
    \/ \E t \in Threads : MayNest(t) /\ OpenShared(t) /\ LockOnly
    \/ \E t \in Threads : MayNest(t) /\ OpenExclusive(t) /\ LockOnly

SpecNested == Init /\ [][NextNested]_vars

\* The context manager on top of the thread's stack was opened in the body
\* of exclusive().
OpenedInExclusive(t) ==
    /\ Len(stack[t]) >= 2
    /\ stack[t][Len(stack[t]) - 1].kind = "exclusive"

\* C30: exclusive mode is not reentrant.  A thread that has opened shared()
\* or exclusive() in the body of exclusive() never gets into the body of the
\* context manager it opened and never leaves it: it is in acquire_shared or
\* in acquire_exclusive (or about to call it), it has no entry in the
\* reader-hold map, also when it came to the exclusive body by escalation,
\* and active_writers stays 1, its own hold.
C30_ExclusiveNotReentrant ==
    \A t \in Threads :
        OpenedInExclusive(t) =>
            /\ pc[t] \in {"sh_wait", "ex_acquire", "ex_wait"}
            /\ pc[t] # "ex_acquire" => Blocked(t)
            /\ ~IsReader(t)
            /\ active_writers = 1
            /\ ~exc[t]

\* A thread that escalated waits in the acquire_shared of a shared() it
\* opened in its exclusive body.
C30_Witness ==
    \E t \in Threads :
        /\ Len(stack[t]) = 3
        /\ stack[t][2].kind = "exclusive" /\ stack[t][2].is_reader
        /\ Top(t).kind = "shared"
        /\ pc[t] = "sh_wait" /\ t \in readers_ok

====
